---------------------------- MODULE Spec2Model ----------------------------
(***************************************************************************)
(* Model of key_file_cleaner.py: the line filter (line_to_keep), the key    *)
(* file rewriter (process_file) and the tree walker                         *)
(* (remove_lines_in_files).                                                 *)
(*                                                                          *)
(* A Python str is a sequence of one-character strings.  A file on disk is  *)
(* a sequence of lines, each a record [text, nl]: the characters of the     *)
(* line and the terminator stored on disk ("\n", "\r\n", or "" for a last   *)
(* line that has none).  Text-mode reading and writing translate the        *)
(* terminators as Python does.                                              *)
(***************************************************************************)
EXTENDS Integers, Sequences, FiniteSets, TLC

VARIABLES
    os_name,        \* "nt" or "posix": decides os.linesep
    remove_d3p,     \* the flag handed to remove_lines_in_files
    files,          \* the names os.walk yields, in traversal order
    disk,           \* disk[i]: the file behind the i-th name
    orig,           \* the disk as it was when the walk started (history)
    log_at,         \* index of KeyFileCleaner.log in the tree, 0 if outside
    pc,             \* where the program is
    idx,            \* index of the file the walker is at
    lines,          \* process_file: lines
    new_lines,      \* process_file: new_lines
    count,          \* process_file: count
    written,        \* process_file: lines already written back
    files_removed,  \* remove_lines_in_files: files_removed
    log,            \* the records handed to logging, in order
    stdout,         \* what print() has emitted
    rm_calls,       \* indices os.remove was called on, in order (history)
    pf_calls,       \* indices process_file was called on, in order (history)
    w_opens,        \* indices opened for writing, in order (history)
    call            \* a direct call of line_to_keep: its argument and outcome

vars == <<os_name, remove_d3p, files, disk, orig, log_at, pc, idx, lines,
          new_lines, count, written, files_removed, log, stdout, rm_calls,
          pf_calls, w_opens, call>>

---------------------------------------------------------------------------
(* Bounds *)

\* longest tree (number of files os.walk yields) of the walk specification
MaxFiles == 2
\* longest initial content, in lines, of the key file of the one-file
\* specification
MaxLines == 3
\* longest string handed to line_to_keep directly
MaxStrLen == 3

---------------------------------------------------------------------------
(* Strings *)

UpperCase == <<"A","B","C","D","E","F","G","H","I","J","K","L","M",
               "N","O","P","Q","R","S","T","U","V","W","X","Y","Z">>
LowerCase == <<"a","b","c","d","e","f","g","h","i","j","k","l","m",
               "n","o","p","q","r","s","t","u","v","w","x","y","z">>

\* the lower-case letter of every upper-case letter
LowerOf ==
    [c \in { UpperCase[k] : k \in 1..26 } |->
        LowerCase[CHOOSE k \in 1..26 : UpperCase[k] = c]]

\* str.lower() on one character
lower_char(c) == IF c \in DOMAIN LowerOf THEN LowerOf[c] ELSE c

\* str.lower() without the conversion (mutant)
lower_identity(s) == s

\* str.lower()
lower(s) == [k \in 1..Len(s) |-> lower_char(s[k])]

\* str.startswith(p) for one prefix p
startswith(s, p) == Len(p) <= Len(s) /\ SubSeq(s, 1, Len(p)) = p

\* str.endswith(p) for one suffix p
endswith(s, p) ==
    Len(p) <= Len(s) /\ SubSeq(s, Len(s) - Len(p) + 1, Len(s)) = p

\* str.startswith(tuple(ps))
startswith_any(s, ps) == \E k \in 1..Len(ps) : startswith(s, ps[k])

\* str.endswith(tuple(ps))
endswith_any(s, ps) == \E k \in 1..Len(ps) : endswith(s, ps[k])

---------------------------------------------------------------------------
(* Python values and outcomes *)

None == [type |-> "NoneType"]
Str(s) == [type |-> "str", val |-> s]
Return(v) == [kind |-> "return", value |-> v]
Raise(e) == [kind |-> "raise", exc |-> e]

---------------------------------------------------------------------------
(* line_to_keep *)

\* line_to_keep that drops the empty string and accepts None (mutant)
line_to_keep_nonempty(line) ==
    IF line = None
    THEN Return(TRUE)
    ELSE Return(Len(line.val) > 0 /\ ~startswith(line.val, <<"$">>))

line_to_keep(line) ==
    IF line = None
    THEN Raise("TypeError")
    ELSE Return(~startswith(line.val, <<"$">>))

---------------------------------------------------------------------------
(* The junk test and the key-file test of remove_lines_in_files *)

file_extensions_to_remove ==
    << <<".", "a", "n", "s", "a">>,
       <<".", "h", "m">>,
       <<".", "m", "v", "w">>,
       <<".", "c", "a", "t", "p", "a", "r", "t">>,
       <<".", "c", "f", "i", "l", "e">> >>

file_starts_base ==
    << <<".", "_">>,
       <<"a", "n", "s", "a">>,
       <<".", "l", "o", "c", "k">>,
       <<"d", "3", "d">>,
       <<"d", "3", "f">>,
       <<"l", "s", "r", "u", "n">>,
       <<".", "l", "o", "c", "k">>,
       <<"m", "e", "s", "s">>,
       <<"d", "3", "h">>,
       <<"l", "s", "p", "o", "s", "t">> >>

\* the prefix list with "d3p" whatever the flag says (mutant)
file_starts_always_d3p(flag) == Append(file_starts_base, <<"d", "3", "p">>)

\* file_starts_to_remove once the flag has been looked at
file_starts_to_remove(flag) ==
    IF flag
    THEN Append(file_starts_base, <<"d", "3", "p">>)
    ELSE file_starts_base

\* the condition of the if on the visited file
IsJunk(file, flag) ==
    LET name == lower(file)
    IN  \/ endswith_any(name, file_extensions_to_remove)
        \/ startswith_any(name, file_starts_to_remove(flag))

\* the key-file test on the lowercased name (mutant)
IsKeyFile_nocase(file) ==
    LET name == lower(file)
    IN  endswith_any(name, << <<".", "k", "e", "y">>, <<".", "k">> >>)

\* the condition of the elif on the visited file
IsKeyFile(file) ==
    endswith_any(file, << <<".", "k", "e", "y">>, <<".", "k">> >>)

\* the branches tested in the other order (mutant)
Dispatch_key_first(file, flag) ==
    IF IsKeyFile(file) THEN "process"
    ELSE IF IsJunk(file, flag) THEN "remove"
    ELSE "skip"

\* the branch the if/elif takes for the visited file
Dispatch(file, flag) ==
    IF IsJunk(file, flag) THEN "remove"
    ELSE IF IsKeyFile(file) THEN "process"
    ELSE "skip"

---------------------------------------------------------------------------
(* Text-mode file input and output *)

\* os.linesep
linesep(os) == IF os = "nt" THEN "\r\n" ELSE "\n"

\* a byte that is no valid text under the encoding open(path, 'r') assumes
BadByte == "<FF>"

\* decoding that never fails (mutant)
decodes_always(content) == TRUE

\* whether file.readlines() decodes the whole content
decodes(content) ==
    \A k \in 1..Len(content) :
        \A j \in 1..Len(content[k].text) : content[k].text[j] # BadByte

\* one line as readlines() returns it: universal newlines turn the
\* terminator found on disk into "\n"
decode_line(l) == l.text \o (IF l.nl = "" THEN <<>> ELSE <<"\n">>)

\* file.readlines() in text mode
readlines(content) == [k \in 1..Len(content) |-> decode_line(content[k])]

\* one str as writelines() stores it: a trailing "\n" becomes os.linesep
encode_line(s, os) ==
    IF Len(s) > 0 /\ s[Len(s)] = "\n"
    THEN [text |-> SubSeq(s, 1, Len(s) - 1), nl |-> linesep(os)]
    ELSE [text |-> s, nl |-> ""]

\* the comprehension that keeps the lines in reverse order (mutant)
kept_lines_reversed(ls) ==
    LET keep == SelectSeq(ls, LAMBDA l : line_to_keep(Str(l)).value)
    IN  [k \in 1..Len(keep) |-> keep[Len(keep) + 1 - k]]

\* [line for line in lines if line_to_keep(line)]
kept_lines(ls) == SelectSeq(ls, LAMBDA l : line_to_keep(Str(l)).value)

\* os.path.exists(file_path): false for a dangling symbolic link
path_exists(f) == f.present /\ f.target

---------------------------------------------------------------------------
(* Logging *)

LogFileName ==
    <<"K", "e", "y", "F", "i", "l", "e", "C", "l", "e", "a", "n", "e", "r",
      ".", "l", "o", "g">>

\* one record handed to logging: level, message, file, number, source line
Record(level, msg, file, n, line) ==
    [level |-> level, msg |-> msg, file |-> file, n |-> n, line |-> line]

\* the line the file handler appends to KeyFileCleaner.log for one record
LogLine == [text |-> <<"#">>, nl |-> linesep(os_name)]

\* disk d after one record went to the log file: the handler appends a line
\* to KeyFileCleaner.log when that file lies in the walked tree
AppendToLogFile(d) ==
    IF log_at = 0 THEN d
    ELSE [d EXCEPT ![log_at].content = Append(@, LogLine)]

---------------------------------------------------------------------------
(* Initial states *)

\* the names of the walk specification: a name that is junk exactly when the
\* flag is set and a key file besides, the same name in upper case, a key
\* file that is never junk, the same name in upper case, and the name of the
\* log file
WalkPool ==
    { <<"d", "3", "p", "l", "o", "t", ".", "k">>,
      <<"D", "3", "P", "L", "O", "T", ".", "K">>,
      <<"m", ".", "k", "e", "y">>,
      <<"M", ".", "K", "E", "Y">>,
      LogFileName }

\* the names of the one-file specification
NamePool ==
    WalkPool \cup
    { <<"d", "3", "p", "l", "o", "t">>,
      <<"D", "3", "P", "L", "O", "T">>,
      <<"d", "3", "d", "u", "m", "p", ".", "k">>,
      <<"x", ".", "a", "n", "s", "a">>,
      <<"X", ".", "H", "M">>,
      <<"x", ".", "m", "v", "w">>,
      <<"x", ".", "C", "a", "t", "P", "a", "r", "t">>,
      <<"x", ".", "c", "f", "i", "l", "e">>,
      <<".", "_", "x">>,
      <<"a", "n", "s", "a", ".", "k", "e", "y">>,
      <<".", "l", "o", "c", "k">>,
      <<"D", "3", "F">>,
      <<"L", "S", "R", "U", "N">>,
      <<"m", "e", "s", "s">>,
      <<"d", "3", "h", "s", "p">>,
      <<"L", "s", "P", "o", "s", "t">>,
      <<"r", ".", "t", "x", "t">>,
      <<"m", ".", "k">>,
      <<"M", ".", "K">>,
      <<"x", "a", "n", "s", "a">>,
      <<"h", "m">>,
      <<"d", "3">>,
      <<"x", ".", "h", "m", "x">>,
      <<".", "k">>,
      <<"a", ".", "k", "e", "y", "s">> }

\* the lines a decodable key file is made of
LinePool ==
    { [text |-> <<"$", "c">>, nl |-> "\n"],
      [text |-> <<"N">>, nl |-> "\r\n"],
      [text |-> <<" ", "$">>, nl |-> "\n"],
      [text |-> <<"E">>, nl |-> ""] }

\* a line that holds an undecodable byte
BadLine == [text |-> <<"N", BadByte>>, nl |-> "\n"]

SeqsUpTo(S, n) == UNION { [1..m -> S] : m \in 0..n }

\* only the last line of a file can lack a terminator
WellFormed(c) == \A k \in 1..Len(c) : c[k].nl = "" => k = Len(c)

\* the initial contents of a key file in the walk specification: one that
\* decodes and one that does not
WalkContents ==
    { <<[text |-> <<"$", "c">>, nl |-> "\n"], [text |-> <<"N">>, nl |-> "\r\n"]>>,
      <<[text |-> <<"$", "c">>, nl |-> "\n"], BadLine>> }

\* the initial contents of a key file in the one-file specification: the
\* decodable ones up to MaxLines lines, and two that hold an undecodable byte
Contents ==
    { c \in SeqsUpTo(LinePool, MaxLines) : WellFormed(c) } \cup
    { <<BadLine>>, <<[text |-> <<"$", "c">>, nl |-> "\n"], BadLine>> }

\* what a file that is no key file holds
OtherContent ==
    << [text |-> <<"$", "d">>, nl |-> "\r\n"], [text |-> <<"D">>, nl |-> "\n"] >>

\* names ending in .key or .k in any letter case: the files given a key
\* file's content
KeyLike(file) ==
    LET name == lower(file)
    IN  endswith(name, <<".", "k", "e", "y">>) \/ endswith(name, <<".", "k">>)

NoCall == [arg |-> None, out |-> [kind |-> "idle"]]

\* The state when the loop over os.walk begins: directory is a directory
\* (lines 114-117 have passed), the lists are built and files_removed is 0.
\* os.walk yields no None and os.path.join no empty path, so the raise at
\* line 127 and the ValueError at line 69 cannot happen in a walk.  Every
\* file whose name ends in .key or .k in any letter case holds the same
\* content c; a key file may be a dangling symbolic link, which os.walk
\* lists and os.path.exists denies.  Names and contents are ASCII apart from
\* BadByte, so the encodings of lines 74 and 79 agree on them.
InitWalk(trees, contents) ==
    /\ os_name \in {"nt", "posix"}
    /\ remove_d3p \in BOOLEAN
    /\ files \in trees
    /\ log_at \in {0} \cup { i \in 1..Len(files) : files[i] = LogFileName }
    /\ \E c \in contents :
       \E broken \in SUBSET { i \in 1..Len(files) :
                                 Dispatch(files[i], remove_d3p) = "process" } :
           disk = [i \in 1..Len(files) |->
                     [present |-> TRUE,
                      target  |-> i \notin broken,
                      content |-> IF i \in broken \/ i = log_at THEN <<>>
                                  ELSE IF KeyLike(files[i]) THEN c
                                  ELSE OtherContent]]
    /\ orig = disk
    /\ pc = "walk"
    /\ idx = 1
    /\ lines = <<>>
    /\ new_lines = <<>>
    /\ count = 0
    /\ written = 0
    /\ files_removed = 0
    /\ log = <<>>
    /\ stdout = <<>>
    /\ rm_calls = <<>>
    /\ pf_calls = <<>>
    /\ w_opens = <<>>
    /\ call = NoCall

Init == InitWalk(SeqsUpTo(WalkPool, MaxFiles), WalkContents)

InitFile == InitWalk({ <<n>> : n \in NamePool }, Contents)

---------------------------------------------------------------------------
(* remove_lines_in_files: the loop over the files os.walk yields *)

walker_vars == <<os_name, remove_d3p, files, orig, log_at, call>>
pf_locals == <<lines, new_lines, count, written>>

AtFile ==
    /\ pc = "walk"
    /\ idx <= Len(files)

\* the junk branch with the tally incremented on a failure too (mutant)
RemoveStep_count_failed(ok) ==
    /\ AtFile
    /\ Dispatch(files[idx], remove_d3p) = "remove"
    /\ rm_calls' = Append(rm_calls, idx)
    /\ files_removed' = files_removed + 1
    /\ IF ok
       THEN /\ log' = Append(log, Record("INFO", "Removed file", idx,
                                         files_removed + 1, 133))
            /\ disk' = AppendToLogFile([disk EXCEPT ![idx].present = FALSE])
       ELSE /\ log' = Append(log, Record("ERROR", "Failed to remove", idx,
                                         0, 135))
            /\ disk' = AppendToLogFile(disk)
    /\ idx' = idx + 1
    /\ UNCHANGED <<walker_vars, pf_locals, pc, stdout, pf_calls, w_opens>>

\* the junk branch: os.remove succeeds (ok) or raises
RemoveStep(ok) ==
    /\ AtFile
    /\ Dispatch(files[idx], remove_d3p) = "remove"
    /\ rm_calls' = Append(rm_calls, idx)
    /\ IF ok
       THEN /\ files_removed' = files_removed + 1
            /\ log' = Append(log, Record("INFO", "Removed file", idx,
                                         files_removed + 1, 133))
            /\ disk' = AppendToLogFile([disk EXCEPT ![idx].present = FALSE])
       ELSE /\ files_removed' = files_removed
            /\ log' = Append(log, Record("ERROR", "Failed to remove", idx,
                                         0, 135))
            /\ disk' = AppendToLogFile(disk)
    /\ idx' = idx + 1
    /\ UNCHANGED <<walker_vars, pf_locals, pc, stdout, pf_calls, w_opens>>

WalkRemove == \E ok \in BOOLEAN : RemoveStep(ok)

\* the key-file branch with the exception swallowed (mutant)
WalkProcess_swallow ==
    /\ AtFile
    /\ Dispatch(files[idx], remove_d3p) = "process"
    /\ pf_calls' = Append(pf_calls, idx)
    /\ IF path_exists(disk[idx])
       THEN /\ pc' = "pf_read"
            /\ UNCHANGED <<log, disk, idx>>
       ELSE /\ log' = Append(log, Record("ERROR",
                           "Unhandled exception processing", idx, 0, 141))
            /\ disk' = AppendToLogFile(disk)
            /\ idx' = idx + 1
            /\ pc' = "walk"
    /\ UNCHANGED <<walker_vars, pf_locals, files_removed, stdout, rm_calls,
                   w_opens>>

\* the key-file branch: process_file is called; it raises FileNotFoundError
\* before its try block when the path does not exist, which the walker logs
\* and raises again
WalkProcess ==
    /\ AtFile
    /\ Dispatch(files[idx], remove_d3p) = "process"
    /\ pf_calls' = Append(pf_calls, idx)
    /\ IF path_exists(disk[idx])
       THEN /\ pc' = "pf_read"
            /\ UNCHANGED <<log, disk>>
       ELSE /\ log' = Append(log, Record("ERROR",
                           "Unhandled exception processing", idx, 0, 141))
            /\ disk' = AppendToLogFile(disk)
            /\ pc' = "aborted"
    /\ UNCHANGED <<walker_vars, pf_locals, idx, files_removed, stdout,
                   rm_calls, w_opens>>

\* neither branch: the file is left alone
WalkSkip ==
    /\ AtFile
    /\ Dispatch(files[idx], remove_d3p) = "skip"
    /\ idx' = idx + 1
    /\ UNCHANGED <<walker_vars, pf_locals, disk, pc, files_removed, log,
                   stdout, rm_calls, pf_calls, w_opens>>

\* os.walk is exhausted: the completion message
WalkDone ==
    /\ pc = "walk"
    /\ idx > Len(files)
    /\ stdout' = Append(stdout, "All .key files have been processed.")
    /\ pc' = "done"
    /\ UNCHANGED <<walker_vars, pf_locals, disk, idx, files_removed, log,
                   rm_calls, pf_calls, w_opens>>

---------------------------------------------------------------------------
(* process_file, from its try block on; the walker is at files[idx] *)

pf_frame == <<walker_vars, files_removed, stdout, rm_calls, pf_calls>>

\* process_file returns to the loop of the walker
PFReturn ==
    /\ pc' = "walk"
    /\ idx' = idx + 1
    /\ lines' = <<>>
    /\ new_lines' = <<>>
    /\ count' = 0
    /\ written' = 0

\* an except clause of process_file logs the error; the function returns
PFCaught(msg, line) ==
    /\ log' = Append(log, Record("ERROR", msg, idx, 0, line))
    /\ PFReturn

\* open(file_path, 'r') and readlines(), then the filter and the count
PFRead ==
    /\ pc = "pf_read"
    /\ \E ok \in BOOLEAN :
         IF ~ok
         THEN /\ PFCaught("Unhandled exception processing", 86)
              /\ disk' = AppendToLogFile(disk)
         ELSE IF ~decodes(disk[idx].content)
         THEN /\ PFCaught("Error decoding", 84)
              /\ disk' = AppendToLogFile(disk)
         ELSE /\ lines' = readlines(disk[idx].content)
              /\ new_lines' = kept_lines(lines')
              /\ count' = Len(lines') - Len(new_lines')
              /\ pc' = "pf_open_w"
              /\ UNCHANGED <<disk, log, idx, written>>
    /\ UNCHANGED <<pf_frame, w_opens>>

\* open(file_path, 'w'): truncates the file, or raises and leaves it
PFOpenWrite ==
    /\ pc = "pf_open_w"
    /\ w_opens' = Append(w_opens, idx)
    /\ \E ok \in BOOLEAN :
         IF ok
         THEN /\ disk' = [disk EXCEPT ![idx].content = <<>>]
              /\ pc' = "pf_write"
              /\ UNCHANGED <<log, idx, lines, new_lines, count, written>>
         ELSE /\ PFCaught("Unhandled exception processing", 86)
              /\ disk' = AppendToLogFile(disk)
    /\ UNCHANGED pf_frame

\* writelines(): the next line reaches the file, or the write raises
PFWriteLine ==
    /\ pc = "pf_write"
    /\ written < Len(new_lines)
    /\ \E ok \in BOOLEAN :
         IF ok
         THEN /\ disk' = [disk EXCEPT ![idx].content =
                             Append(@, encode_line(new_lines[written + 1],
                                                   os_name))]
              /\ written' = written + 1
              /\ UNCHANGED <<log, pc, idx, lines, new_lines, count>>
         ELSE /\ PFCaught("Unhandled exception processing", 86)
              /\ disk' = AppendToLogFile(disk)
    /\ UNCHANGED <<pf_frame, w_opens>>

\* every line is written: the file is closed and the count is logged
PFFinish ==
    /\ pc = "pf_write"
    /\ written = Len(new_lines)
    /\ log' = Append(log, Record("INFO", "Processed file", idx, count, 82))
    /\ disk' = AppendToLogFile(disk)
    /\ PFReturn
    /\ UNCHANGED <<pf_frame, w_opens>>

---------------------------------------------------------------------------
(* A direct call of line_to_keep *)

\* the characters of the strings line_to_keep is called with
LineChars == {"$", "N", " ", "\n"}

LineArgs == {None} \cup { Str(s) : s \in SeqsUpTo(LineChars, MaxStrLen) }

InitLine ==
    /\ os_name = "posix"
    /\ remove_d3p = FALSE
    /\ files = <<>>
    /\ log_at = 0
    /\ disk = <<>>
    /\ orig = <<>>
    /\ pc = "line_to_keep"
    /\ idx = 1
    /\ lines = <<>>
    /\ new_lines = <<>>
    /\ count = 0
    /\ written = 0
    /\ files_removed = 0
    /\ log = <<>>
    /\ stdout = <<>>
    /\ rm_calls = <<>>
    /\ pf_calls = <<>>
    /\ w_opens = <<>>
    /\ \E a \in LineArgs : call = [arg |-> a, out |-> [kind |-> "pending"]]

LineToKeepCall ==
    /\ pc = "line_to_keep"
    /\ call.out = [kind |-> "pending"]
    /\ call' = [call EXCEPT !.out = line_to_keep(call.arg)]
    /\ UNCHANGED <<os_name, remove_d3p, files, disk, orig, log_at, pc, idx,
                   lines, new_lines, count, written, files_removed, log,
                   stdout, rm_calls, pf_calls, w_opens>>

---------------------------------------------------------------------------
(* Specifications *)

Next ==
    \/ WalkRemove
    \/ WalkProcess
    \/ WalkSkip
    \/ WalkDone
    \/ PFRead
    \/ PFOpenWrite
    \/ PFWriteLine
    \/ PFFinish

\* one walk over a tree of up to MaxFiles files
Spec == Init /\ [][Next]_vars

\* one walk over a tree of one file, for every name of NamePool and every
\* content of Contents
SpecFile == InitFile /\ [][Next]_vars

NextLine == LineToKeepCall

\* one direct call of line_to_keep
SpecLine == InitLine /\ [][NextLine]_vars

---------------------------------------------------------------------------
(* What the claims speak of, stated apart from the definitions above *)

\* lowercase(F), letter by letter
Fold(s) ==
    [k \in 1..Len(s) |->
        IF s[k] \in DOMAIN LowerOf THEN LowerOf[s[k]] ELSE s[k]]

HasPrefix(s, p) == Len(s) >= Len(p) /\ \A k \in 1..Len(p) : s[k] = p[k]
HasSuffix(s, p) ==
    Len(s) >= Len(p) /\ \A k \in 1..Len(p) : s[Len(s) - Len(p) + k] = p[k]

JunkExtensions ==
    { <<".", "a", "n", "s", "a">>, <<".", "h", "m">>, <<".", "m", "v", "w">>,
      <<".", "c", "a", "t", "p", "a", "r", "t">>,
      <<".", "c", "f", "i", "l", "e">> }

JunkPrefixes ==
    { <<".", "_">>, <<"a", "n", "s", "a">>, <<".", "l", "o", "c", "k">>,
      <<"d", "3", "d">>, <<"d", "3", "f">>, <<"l", "s", "r", "u", "n">>,
      <<"m", "e", "s", "s">>, <<"d", "3", "h">>,
      <<"l", "s", "p", "o", "s", "t">> }

\* the junk test as the specification words it
JunkBySpec(F, flag) ==
    LET f == Fold(F)
    IN  \/ \E e \in JunkExtensions : HasSuffix(f, e)
        \/ \E q \in JunkPrefixes : HasPrefix(f, q)
        \/ flag /\ HasPrefix(f, <<"d", "3", "p">>)

\* the name ends in .key or .k, letter case as written
KeyBySpec(F) ==
    HasSuffix(F, <<".", "k", "e", "y">>) \/ HasSuffix(F, <<".", "k">>)

In(x, s) == \E k \in 1..Len(s) : s[k] = x
Times(x, s) == Cardinality({ k \in 1..Len(s) : s[k] = x })

\* the walker has taken its branch for the i-th file
Handled(i) ==
    \/ i < idx
    \/ i = idx /\ pc \in {"pf_read", "pf_open_w", "pf_write", "aborted"}

\* what the walk did with the i-th file
Class(i) ==
    IF In(i, rm_calls) THEN "delete"
    ELSE IF In(i, pf_calls) THEN "rewrite"
    ELSE "untouched"

Files == 1..Len(files)

\* the log holds a record with this message about the i-th file
Logged(msg, i) == \E k \in 1..Len(log) : log[k].msg = msg /\ log[k].file = i

StartsWithDollar(l) == Len(l.text) >= 1 /\ l.text[1] = "$"

\* the lines of S that do not start with '$', as they are on disk
KeptOf(S) == SelectSeq(S, LAMBDA l : ~StartsWithDollar(l))

\* the same lines, each terminator replaced by the platform's separator
KeptOfNormalised(S) ==
    [k \in 1..Len(KeptOf(S)) |->
        [text |-> KeptOf(S)[k].text,
         nl   |-> IF KeptOf(S)[k].nl = "" THEN ""
                  ELSE IF os_name = "nt" THEN "\r\n" ELSE "\n"]]

DollarLines(S) == Cardinality({ k \in 1..Len(S) : StartsWithDollar(S[k]) })

Undecodable(S) ==
    \E k \in 1..Len(S) : \E j \in 1..Len(S[k].text) : S[k].text[j] = "<FF>"

Running == pc \in {"walk", "pf_read", "pf_open_w", "pf_write"}

---------------------------------------------------------------------------
(* C1 *)

\* C1: for every visited file, os.remove is called on it (the junk test was
\* true) exactly when its lowercased name ends with one of the five
\* extensions, starts with one of the nine prefixes, or starts with d3p
\* while remove_d3p is set.
C1_JunkTest ==
    \A i \in Files :
        Handled(i) => (In(i, rm_calls) <=> JunkBySpec(files[i], remove_d3p))

\* a name starting with D3P in upper case, matching nothing else, has been
\* sent to deletion with the flag set
C1_Witness ==
    /\ files = << <<"D", "3", "P", "L", "O", "T">> >>
    /\ remove_d3p
    /\ rm_calls = <<1>>

---------------------------------------------------------------------------
(* C2 *)

\* C2: every visited file gets exactly one disposition: one call of
\* os.remove when the junk test is true, one call of process_file when the
\* junk test is false and the name ends in .key or .k, neither otherwise; a
\* file that passes both tests is never handed to process_file, also when
\* its deletion failed.  A file not yet visited has had neither call.
C2_OneDisposition ==
    \A i \in Files :
        /\ Times(i, rm_calls) + Times(i, pf_calls) <= 1
        /\ Handled(i) =>
             /\ In(i, rm_calls) <=> JunkBySpec(files[i], remove_d3p)
             /\ In(i, pf_calls) <=>
                   (~JunkBySpec(files[i], remove_d3p) /\ KeyBySpec(files[i]))
             /\ (JunkBySpec(files[i], remove_d3p) /\ KeyBySpec(files[i]))
                   => ~In(i, pf_calls) /\ ~In(i, w_opens)
        /\ ~Handled(i) => ~In(i, rm_calls) /\ ~In(i, pf_calls)

\* a file that passes both tests was visited, its deletion failed, and the
\* walk ended without process_file having been called on it
C2_Witness ==
    \E i \in Files :
        /\ JunkBySpec(files[i], remove_d3p) /\ KeyBySpec(files[i])
        /\ Logged("Failed to remove", i)
        /\ disk[i].present
        /\ pc = "done"
        /\ ~In(i, pf_calls)

---------------------------------------------------------------------------
(* C3 *)

\* C3 as claimed: two visited names that differ only in letter case get the
\* same one of the three classes.
C3_CaseInsensitiveClass ==
    \A i, j \in Files :
        (Handled(i) /\ Handled(j) /\ Fold(files[i]) = Fold(files[j]))
            => Class(i) = Class(j)

\* C3 amended: two visited names that differ only in letter case agree on
\* junk-to-delete; the class is a function of the name as written and of
\* the flag; names that differ only in case and get different classes are
\* one a key file to rewrite and the other untouched (the .key/.k test is
\* case-sensitive).
C3_ClassByName ==
    \A i, j \in Files :
        (Handled(i) /\ Handled(j)) =>
            /\ Fold(files[i]) = Fold(files[j]) =>
                 /\ Class(i) = "delete" <=> Class(j) = "delete"
                 /\ Class(i) # Class(j) =>
                        {Class(i), Class(j)} = {"rewrite", "untouched"}
            /\ files[i] = files[j] => Class(i) = Class(j)

\* two names that differ only in case were visited: the lower-case one was
\* handed to process_file, the upper-case one left untouched
C3_Witness ==
    \E i, j \in Files :
        /\ Handled(i) /\ Handled(j)
        /\ files[i] # files[j]
        /\ Fold(files[i]) = Fold(files[j])
        /\ Class(i) = "rewrite"
        /\ Class(j) = "untouched"
        /\ pc = "done"

---------------------------------------------------------------------------
(* C4 *)

\* C4 as claimed: on a string, line_to_keep returns true exactly when the
\* string is non-empty and its first character is not '$'; on None it
\* raises.
C4_KeepNonEmpty ==
    call.out.kind \in {"return", "raise"} =>
        IF call.arg = None
        THEN call.out.kind = "raise"
        ELSE call.out = Return(Len(call.arg.val) > 0 /\ call.arg.val[1] # "$")

\* C4 amended: on a string, line_to_keep returns true exactly when the
\* string does not start with '$' (the empty string is kept, every string
\* starting with '$' is not); on None it raises TypeError.
C4_KeepUnlessDollar ==
    call.out.kind \in {"return", "raise"} =>
        IF call.arg = None
        THEN call.out = Raise("TypeError")
        ELSE call.out =
               Return(~(Len(call.arg.val) > 0 /\ call.arg.val[1] = "$"))

\* line_to_keep was called on the empty string and returned true
C4_Witness == call.arg = Str(<<>>) /\ call.out = Return(TRUE)

---------------------------------------------------------------------------
(* C5 *)

---------------------------------------------------------------------------
(* C6 *)

\* C6: a file process_file was called on holds, at every point, either its
\* complete original content or its complete filtered content.
C6_AtomicOverwrite ==
    \A i \in Files :
        In(i, pf_calls) =>
            \/ disk[i].content = orig[i].content
            \/ disk[i].content = KeptOfNormalised(orig[i].content)

---------------------------------------------------------------------------
(* C7 *)

FailedDeletions == { k \in 1..Len(log) : log[k].msg = "Failed to remove" }
Deletions == { k \in 1..Len(log) : log[k].msg = "Removed file" }

\* what C7 says of each failed deletion and of the tally
C7_PerFailure ==
    /\ \A k \in FailedDeletions :
          /\ log[k].level = "ERROR"
          /\ disk[log[k].file].present
          /\ disk[log[k].file].content = orig[log[k].file].content
          /\ log[k].file < idx
    /\ files_removed = Cardinality(Deletions)
    /\ files_removed = Cardinality({ i \in Files : ~disk[i].present })
    /\ Len(rm_calls) = files_removed + Cardinality(FailedDeletions)

\* C7 as claimed: after a failed deletion (logged, file in place, tally not
\* incremented) the walk processes every remaining file and reaches its
\* completion message: it never ends aborted.
C7_AlwaysCompletes ==
    /\ C7_PerFailure
    /\ FailedDeletions # {} => pc # "aborted"

\* C7 amended: a failed deletion is logged, leaves the file in place and the
\* tally as it was, and the walk goes on with the next file; the walk runs
\* on until it has visited every file and emitted its completion message,
\* unless a later process_file raises FileNotFoundError, the only way the
\* walk aborts; files_removed equals the number of deletions that succeeded.
C7_FailureDoesNotStop ==
    /\ C7_PerFailure
    /\ Running => ENABLED Next
    /\ pc = "done" =>
          /\ stdout = <<"All .key files have been processed.">>
          /\ \A i \in Files : Handled(i)
    /\ pc = "aborted" =>
          /\ log[Len(log)].line = 141
          /\ log[Len(log)].file = idx
          /\ In(idx, pf_calls) /\ ~In(idx, rm_calls)
          /\ ~(orig[idx].present /\ orig[idx].target)

\* a walk whose first deletion failed and whose second succeeded has
\* reached its completion message with a tally of one
C7_Witness ==
    /\ pc = "done"
    /\ Len(files) >= 2
    /\ Logged("Failed to remove", 1)
    /\ Logged("Removed file", 2)
    /\ files_removed = 1
    /\ stdout # <<>>

---------------------------------------------------------------------------
(* C8 *)

---------------------------------------------------------------------------
(* C9 *)

\* C9: a process_file call on a path that does not exist raises before any
\* read; the walker logs it (line 141) and raises again, which ends the
\* walk: no later file has been or will be deleted or rewritten, no
\* completion message is emitted, and nothing more happens.  Nothing else
\* aborts the walk: not a failed deletion, not an error process_file
\* catches itself.
C9_EscapeAborts ==
    /\ pc = "aborted" =>
          /\ log[Len(log)] =
               Record("ERROR", "Unhandled exception processing", idx, 0, 141)
          /\ In(idx, pf_calls)
          /\ ~JunkBySpec(files[idx], remove_d3p) /\ KeyBySpec(files[idx])
          /\ ~(orig[idx].present /\ orig[idx].target)
          /\ ~In(idx, w_opens)
          /\ stdout = <<>>
          /\ \A j \in Files :
                j > idx =>
                    /\ ~In(j, rm_calls) /\ ~In(j, pf_calls)
                    /\ disk[j].present
                    /\ j # log_at => disk[j] = orig[j]
          /\ ~ENABLED Next
    /\ \A i \in Files :
          (Handled(i) /\ In(i, pf_calls)
             /\ ~(orig[i].present /\ orig[i].target))
              => pc = "aborted" /\ idx = i

\* the walk aborted on its first file while a second file that it would
\* have deleted or rewritten was still to come
C9_Witness ==
    /\ pc = "aborted"
    /\ idx = 1
    /\ Len(files) = 2
    /\ JunkBySpec(files[2], remove_d3p) \/ KeyBySpec(files[2])
    /\ disk[2] = orig[2]

---------------------------------------------------------------------------
(* C10 *)

NoDeletionFailed == FailedDeletions = {}

\* the walk creates no file, and a file that is neither junk nor a key file
\* is never deleted
C10_Frame ==
    /\ DOMAIN disk = DOMAIN orig
    /\ \A i \in Files :
          /\ disk[i].present => orig[i].present
          /\ (~JunkBySpec(files[i], remove_d3p) /\ ~KeyBySpec(files[i]))
                => disk[i].present

\* C10 as claimed: after a completed walk without deletion failure every
\* junk file is absent and every file that is neither junk nor a key file
\* exists with its content unchanged; no file is created, and no file is
\* changed outside these rules.
C10_OthersUnchanged ==
    /\ C10_Frame
    /\ (pc = "done" /\ NoDeletionFailed) =>
          \A i \in Files :
              /\ JunkBySpec(files[i], remove_d3p) => ~disk[i].present
              /\ (~JunkBySpec(files[i], remove_d3p) /\ ~KeyBySpec(files[i]))
                    => disk[i] = orig[i]

\* C10 amended: the same, except for the tool's own log file
\* KeyFileCleaner.log when it lies under the root: the walk leaves it in
\* place and appends one line to it for every record it logs.
C10_OthersUnchangedButLog ==
    /\ C10_Frame
    /\ (pc = "done" /\ NoDeletionFailed) =>
          \A i \in Files : JunkBySpec(files[i], remove_d3p) => ~disk[i].present
    /\ \A i \in Files :
          (~JunkBySpec(files[i], remove_d3p) /\ ~KeyBySpec(files[i])
             /\ i # log_at)
              => disk[i] = orig[i]
    /\ log_at # 0 =>
          /\ disk[log_at].present
          /\ Len(disk[log_at].content) =
                Len(orig[log_at].content) + Len(log)
          /\ SubSeq(disk[log_at].content, 1, Len(orig[log_at].content)) =
                orig[log_at].content

\* a walk without deletion failure has completed: a junk file is gone, and
\* a file named in upper case .KEY, neither junk nor a key file, is as it was
C10_Witness ==
    /\ pc = "done"
    /\ NoDeletionFailed
    /\ \E i \in Files : JunkBySpec(files[i], remove_d3p) /\ ~disk[i].present
    /\ \E j \in Files :
          /\ HasSuffix(files[j], <<".", "K", "E", "Y">>)
          /\ ~JunkBySpec(files[j], remove_d3p)
          /\ disk[j] = orig[j]

===========================================================================
